---- MODULE Spec2Model ----
(***************************************************************************)
(* Model of sglang's TorchMemorySaverAdapter                               *)
(* (python/sglang/srt/torch_memory_saver_adapter.py) and of the server     *)
(* launcher's main path (python/sglang/launch_server.py).                  *)
(*                                                                         *)
(* The adapter module captures the outcome of `import torch_memory_saver`  *)
(* at load time, and its factory create(enable) builds either the Real     *)
(* adapter, which forwards every operation to the backend singleton, or    *)
(* the Noop adapter, whose operations do nothing.  The backend is an       *)
(* external library: it is modelled as an instrumented stub with an        *)
(* enabled flag, a paused set, the currently open region scopes and a log  *)
(* of the calls it received.                                               *)
(***************************************************************************)
EXTENDS Integers, Sequences, FiniteSets, TLC

VARIABLES
    import_error,    \* module global import_error: None or the captured ImportError
    memory_saver,    \* module global _memory_saver: "singleton", or "unbound" when the import failed
    backend_enabled, \* backend stub: _memory_saver.enabled
    paused,          \* backend stub: tags currently paused
    active,          \* backend stub: number of open backend scopes per key
    calls,           \* backend stub: log of the calls received and how each ended, in order
    adapters,        \* adapters built by create(), in creation order
    warnings,        \* records emitted through logger.warning, in order
    pc,              \* per thread: "idle" or "in_call" (inside an adapter method)
    cur,             \* per thread: the adapter call being executed
    last,            \* per thread: the last completed call and what the caller got
    issued,          \* per thread: calls issued on Real adapters, in order
    scopes,          \* context managers handed out by region()/configure_subprocess()
    stack,           \* per thread: scopes entered by `with` and not yet left
    exc,             \* per thread: exception unwinding the thread's `with` blocks
    caught,          \* per thread: exceptions that left the outermost `with` block
    steps,           \* number of adapter calls started so far
    l_pc,            \* launcher: position in the __main__ block
    l_argv,          \* launcher: sys.argv[1:]
    l_pid,           \* launcher: os.getpid()
    l_args,          \* launcher: server_args
    l_trace,         \* launcher: calls made by the __main__ block, in order
    l_exc            \* launcher: exception in flight / leaving the program

adapter_vars == <<import_error, memory_saver, backend_enabled, paused, active,
                  calls, adapters, warnings, pc, cur, last, issued, scopes, stack, exc, caught, steps>>
launcher_vars == <<l_pc, l_argv, l_pid, l_args, l_trace, l_exc>>
vars == <<import_error, memory_saver, backend_enabled, paused, active,
          calls, adapters, warnings, pc, cur, last, issued, scopes, stack, exc, caught, steps,
          l_pc, l_argv, l_pid, l_args, l_trace, l_exc>>

----------------------------------------------------------------------------
(* Bounds of the exploration *)

MaxSteps == 2       \* adapter calls per behaviour
MaxAdapters == 2    \* adapters built per behaviour
MaxScopes == 2      \* context managers handed out per behaviour
MaxWarnings == 2    \* warnings logged per behaviour

Threads == {1, 2}
MainThread == {1}
Tags == {"kv_cache", "weights"}
CallerNames == {"release_memory_occupation", "resume_memory_occupation"}

----------------------------------------------------------------------------
(* Values.  Every Python object the model passes around is a record        *)
(* [type, id]; two error records are the same object iff they are equal.   *)

Obj(type, id) == [type |-> type, id |-> id]
None == Obj("None", 0)
NoTag == "-"
ScopeKeys == Tags \cup {NoTag}

LoadErrors == {Obj("ImportError", 1), Obj("ImportError", 2)}
BackendErrors == {Obj("BackendError", 1)}
BodyErrors == {Obj("BodyError", 1), Obj("BodyError", 2)}
NameError == Obj("NameError", 0)
Bool(b) == Obj("bool", IF b THEN 1 ELSE 0)

ScopeOps == {"region", "configure_subprocess"}
AdapterOps == {"configure_subprocess", "region", "pause", "resume"}

\* What a thread keeps of its last completed call: n counts its calls.
Done(t, op, adapter, arg, outcome, val) ==
    [n |-> last[t].n + 1, op |-> op, adapter |-> adapter, arg |-> arg,
     outcome |-> outcome, val |-> val]
NoCall ==
    [n |-> 0, op |-> "none", adapter |-> 0, arg |-> NoTag,
     outcome |-> "return", val |-> None]

----------------------------------------------------------------------------
(* Module load: try: import torch_memory_saver ... except ImportError as e *)

ModuleLoad(outcome) ==
    IF outcome = None
    THEN [import_error |-> None, memory_saver |-> "singleton"]
    ELSE [import_error |-> outcome, memory_saver |-> "unbound"]

----------------------------------------------------------------------------
(* Backend stub: torch_memory_saver as the adapter sees it *)

BackendLoaded == memory_saver = "singleton"

\* Ways a backend call can end.  region() and configure_subprocess() only
\* build a context manager; pause() may fail; resume() has work to do, and
\* so may fail, only for a tag that is paused.
BackendOutcomes(op, tag) ==
    IF op = "pause" \/ (op = "resume" /\ tag \in paused)
    THEN {"ok", "error"}
    ELSE {"ok"}

BackendPaused(op, tag, outcome) ==
    IF outcome # "ok" THEN paused
    ELSE IF op = "pause" THEN paused \cup {tag}
    ELSE IF op = "resume" THEN paused \ {tag}
    ELSE paused

\* The backend's scope: enter associates, exit disassociates; an exception
\* raised by the body passes through the exit unchanged.
BackendScopeEnter(key) == [active EXCEPT ![key] = @ + 1]
BackendScopeExit(key) == [active EXCEPT ![key] = @ - 1]
BackendScopeThrow(e) == e

\* The backend turns itself off or on (its own bookkeeping).
BackendToggle ==
    /\ BackendLoaded
    /\ backend_enabled' = ~backend_enabled
    /\ UNCHANGED <<import_error, memory_saver, paused, active, calls, adapters,
                   warnings, pc, cur, last, issued, scopes,
                   stack, exc, caught, steps>>
    /\ UNCHANGED launcher_vars

----------------------------------------------------------------------------
(* TorchMemorySaverAdapter.create *)

MissingWarning == [kind |-> "missing_capability", name |-> "torch-memory-saver"]
IneffectiveWarning(name) == [kind |-> "ineffective", name |-> name]

\* create() fails whenever the import failed, whatever enable is
CreateFailsAnyEnable(enable) == import_error # None
CreateFails(enable) == enable /\ import_error # None
\* create() raises a new ImportError in place of the captured one
CreateRaisesFresh == Obj("ImportError", 0)
CreateRaises == import_error
\* create() with the two branches of the conditional expression exchanged
CreateVariantSwapped(enable) == IF enable THEN "Noop" ELSE "Real"
CreateVariant(enable) == IF enable THEN "Real" ELSE "Noop"

Create(t, enable) ==
    /\ pc[t] = "idle" /\ exc[t] = None
    /\ IF CreateFails(enable)
       THEN /\ Len(warnings) < MaxWarnings
            /\ warnings' = Append(warnings, MissingWarning)
            /\ last' = [last EXCEPT ![t] =
                   Done(t, "create", 0, IF enable THEN "true" ELSE "false",
                        "raise", CreateRaises)]
            /\ UNCHANGED adapters
       ELSE /\ Len(adapters) < MaxAdapters
            /\ adapters' = Append(adapters,
                   [variant |-> CreateVariant(enable), enable |-> enable])
            /\ last' = [last EXCEPT ![t] =
                   Done(t, "create", Len(adapters) + 1,
                        IF enable THEN "true" ELSE "false",
                        "return", Obj("adapter", Len(adapters) + 1))]
            /\ UNCHANGED warnings
    /\ UNCHANGED <<import_error, memory_saver, backend_enabled, paused, active,
                   calls, pc, cur, issued, scopes, stack, exc,
                   caught, steps>>
    /\ UNCHANGED launcher_vars

----------------------------------------------------------------------------
(* The enabled property and check_validity *)

\* enabled hardcoded to True on the Real adapter
RealEnabledHardcoded == TRUE
\* _memory_saver is not None and _memory_saver.enabled
RealEnabled == memory_saver # "None" /\ backend_enabled
NoopEnabled == FALSE
EnabledOf(a) ==
    IF adapters[a].variant = "Real" THEN RealEnabled ELSE NoopEnabled

ReadEnabled(t, a) ==
    /\ pc[t] = "idle" /\ exc[t] = None
    /\ a \in DOMAIN adapters
    /\ steps < MaxSteps
    /\ steps' = steps + 1
    /\ last' = [last EXCEPT ![t] =
           Done(t, "enabled", a, NoTag, "return", Bool(EnabledOf(a)))]
    /\ UNCHANGED <<import_error, memory_saver, backend_enabled, paused, active,
                   calls, adapters, warnings, pc, cur, issued,
                   scopes, stack, exc, caught>>
    /\ UNCHANGED launcher_vars

\* check_validity() with the test inverted
CheckValidityWarnsInverted(a) == EnabledOf(a)
CheckValidityWarns(a) == ~EnabledOf(a)

CheckValidity(t, a, name) ==
    /\ pc[t] = "idle" /\ exc[t] = None
    /\ a \in DOMAIN adapters
    /\ steps < MaxSteps
    /\ steps' = steps + 1
    /\ IF CheckValidityWarns(a)
       THEN /\ Len(warnings) < MaxWarnings
            /\ warnings' = Append(warnings, IneffectiveWarning(name))
       ELSE UNCHANGED warnings
    /\ last' = [last EXCEPT ![t] =
           Done(t, "check_validity", a, name, "return", None)]
    /\ UNCHANGED <<import_error, memory_saver, backend_enabled, paused, active,
                   calls, adapters, pc, cur, issued, scopes,
                   stack, exc, caught>>
    /\ UNCHANGED launcher_vars

----------------------------------------------------------------------------
(* configure_subprocess, region, pause, resume *)

\* Real methods with resume() calling the backend's pause()
RealMethodResumePauses(op, tag) ==
    <<[op |-> IF op = "resume" THEN "pause" ELSE op, tag |-> tag]>>
\* Real methods with a pause() that does not reach the backend
RealMethodDropsPause(op, tag) ==
    IF op = "pause" THEN <<>> ELSE <<[op |-> op, tag |-> tag]>>
\* Noop methods that call the backend as the Real ones do
NoopMethodForwards(op, tag) == <<[op |-> op, tag |-> tag]>>

\* What a method body hands to the backend: the Real adapter forwards the
\* same operation with the same tag, the Noop adapter forwards nothing.
RealMethod(op, tag) == <<[op |-> op, tag |-> tag]>>
NoopMethod(op, tag) == <<>>
Method(variant, op, tag) ==
    IF variant = "Real" THEN RealMethod(op, tag) ELSE NoopMethod(op, tag)

NoCur == [op |-> "none", adapter |-> 0, tag |-> NoTag]
PendingScopes == Cardinality({t \in Threads : cur[t].op \in ScopeOps})

NewScope(variant, op, tag, t) ==
    [variant |-> variant, kind |-> op, tag |-> tag, owner |-> t,
     state |-> "created", exits |-> 0, unwound |-> None]

\* The caller enters an adapter method.
Invoke(t, a, op, tag) ==
    /\ pc[t] = "idle" /\ exc[t] = None
    /\ a \in DOMAIN adapters
    /\ (op = "configure_subprocess") = (tag = NoTag)
    /\ steps < MaxSteps
    /\ op \in ScopeOps => Len(scopes) + PendingScopes < MaxScopes
    /\ steps' = steps + 1
    /\ pc' = [pc EXCEPT ![t] = "in_call"]
    /\ cur' = [cur EXCEPT ![t] = [op |-> op, adapter |-> a, tag |-> tag]]
    /\ issued' = IF adapters[a].variant = "Real"
                 THEN [issued EXCEPT ![t] = Append(@, [op |-> op, tag |-> tag])]
                 ELSE issued
    /\ UNCHANGED <<import_error, memory_saver, backend_enabled, paused, active,
                   calls, adapters, warnings, last, scopes,
                   stack, exc, caught>>
    /\ UNCHANGED launcher_vars

BackendCall(t, op, tag, outcome, val) ==
    [thread |-> t, op |-> op, tag |-> tag, outcome |-> outcome, val |-> val]

\* The method body runs and returns to the caller.
Dispatch(t) ==
    /\ pc[t] = "in_call"
    /\ pc' = [pc EXCEPT ![t] = "idle"]
    /\ cur' = [cur EXCEPT ![t] = NoCur]
    /\ LET c == cur[t]
           fwd == Method(adapters[c.adapter].variant, c.op, c.tag)
       IN IF fwd = <<>>
          THEN \* the body is `yield` under @contextmanager, or `pass`
               /\ IF c.op \in ScopeOps
                  THEN /\ scopes' = Append(scopes, NewScope("Noop", c.op, c.tag, t))
                       /\ last' = [last EXCEPT ![t] =
                              Done(t, c.op, c.adapter, c.tag, "return",
                                   Obj("scope", Len(scopes) + 1))]
                  ELSE /\ last' = [last EXCEPT ![t] =
                              Done(t, c.op, c.adapter, c.tag, "return", None)]
                       /\ UNCHANGED scopes
               /\ UNCHANGED <<paused, calls>>
          ELSE IF ~BackendLoaded
          THEN \* the names torch_memory_saver and _memory_saver are unbound
               /\ last' = [last EXCEPT ![t] =
                      Done(t, c.op, c.adapter, c.tag, "raise", NameError)]
               /\ UNCHANGED <<paused, calls, scopes>>
          ELSE \* return <backend call>: its value or its error is the caller's
               LET f == fwd[1] IN
               \E outcome \in BackendOutcomes(f.op, f.tag) :
                  /\ paused' = BackendPaused(f.op, f.tag, outcome)
                  /\ IF outcome = "error"
                     THEN /\ \E e \in BackendErrors :
                             /\ calls' = Append(calls, BackendCall(t, f.op, f.tag, "raise", e))
                             /\ last' = [last EXCEPT ![t] =
                                    Done(t, c.op, c.adapter, c.tag, "raise", e)]
                          /\ UNCHANGED scopes
                     ELSE IF f.op \in ScopeOps
                     THEN /\ scopes' = Append(scopes, NewScope("Real", f.op, f.tag, t))
                          /\ calls' = Append(calls, BackendCall(t, f.op, f.tag, "return",
                                                 Obj("scope", Len(scopes) + 1)))
                          /\ last' = [last EXCEPT ![t] =
                                 Done(t, c.op, c.adapter, c.tag, "return",
                                      Obj("scope", Len(scopes) + 1))]
                     ELSE /\ calls' = Append(calls, BackendCall(t, f.op, f.tag, "return", None))
                          /\ last' = [last EXCEPT ![t] =
                                 Done(t, c.op, c.adapter, c.tag, "return", None)]
                          /\ UNCHANGED scopes
    /\ UNCHANGED <<import_error, memory_saver, backend_enabled, active, adapters,
                   warnings, issued, stack, exc, caught, steps>>
    /\ UNCHANGED launcher_vars

----------------------------------------------------------------------------
(* `with adapter.region(tag):` / `with adapter.configure_subprocess():`     *)

ScopeKey(s) == IF scopes[s].kind = "region" THEN scopes[s].tag ELSE NoTag

\* A Noop generator that catches what is thrown in at its `yield`
NoopGenThrowSwallows(e) == None

\* The exception leaving the Noop generator when e is thrown in at its bare
\* `yield`: nothing catches it.
NoopGenThrow(e) == e

\* The exception still in flight after __exit__(e) of the context manager.
ScopeThrow(variant, e) ==
    IF e = None THEN None
    ELSE IF variant = "Real" THEN BackendScopeThrow(e)
    ELSE NoopGenThrow(e)

ScopeEnter(t, s) ==
    /\ pc[t] = "idle" /\ exc[t] = None
    /\ s \in DOMAIN scopes
    /\ scopes[s].owner = t /\ scopes[s].state = "created"
    /\ scopes' = [scopes EXCEPT ![s].state = "entered"]
    /\ stack' = [stack EXCEPT ![t] = Append(@, s)]
    /\ active' = IF scopes[s].variant = "Real"
                 THEN BackendScopeEnter(ScopeKey(s)) ELSE active
    /\ UNCHANGED <<import_error, memory_saver, backend_enabled, paused, calls,
                   adapters, warnings, pc, cur, last, issued,
                   exc, caught, steps>>
    /\ UNCHANGED launcher_vars

\* The body of the innermost `with` block raises.
BodyRaise(t, e) ==
    /\ pc[t] = "idle" /\ exc[t] = None
    /\ stack[t] # <<>>
    /\ exc' = [exc EXCEPT ![t] = e]
    /\ UNCHANGED <<import_error, memory_saver, backend_enabled, paused, active,
                   calls, adapters, warnings, pc, cur, last,
                   issued, scopes, stack, caught, steps>>
    /\ UNCHANGED launcher_vars

\* Control leaves the innermost `with` block, normally or by exception.
ScopeExit(t) ==
    /\ pc[t] = "idle"
    /\ stack[t] # <<>>
    /\ LET s == stack[t][Len(stack[t])]
           rest == SubSeq(stack[t], 1, Len(stack[t]) - 1)
           e == ScopeThrow(scopes[s].variant, exc[t])
       IN /\ scopes' = [scopes EXCEPT ![s].state = "exited",
                                      ![s].exits = @ + 1,
                                      ![s].unwound = exc[t]]
          /\ stack' = [stack EXCEPT ![t] = rest]
          /\ active' = IF scopes[s].variant = "Real"
                       THEN BackendScopeExit(ScopeKey(s)) ELSE active
          /\ IF rest = <<>> /\ e # None
             THEN /\ caught' = [caught EXCEPT ![t] = @ \cup {e}]
                  /\ exc' = [exc EXCEPT ![t] = None]
             ELSE /\ exc' = [exc EXCEPT ![t] = e]
                  /\ UNCHANGED caught
    /\ UNCHANGED <<import_error, memory_saver, backend_enabled, paused, calls,
                   adapters, warnings, pc, cur, last, issued,
                   steps>>
    /\ UNCHANGED launcher_vars

----------------------------------------------------------------------------
(* launch_server.py: the __main__ block *)

Argvs == {"--model-path m", "--port 30000", ""}
Pids == {101, 102, 103}
PrepareErrors == {Obj("SystemExit", 2), Obj("ValueError", 1)}
LaunchErrors == {Obj("RuntimeError", 1), Obj("KeyboardInterrupt", 1), Obj("SystemExit", 0)}

Event(call, argv, pid, include_parent, err) ==
    [call |-> call, argv |-> argv, pid |-> pid, include_parent |-> include_parent,
     err |-> err]

\* server_args = prepare_server_args(sys.argv[1:]); an error leaves the
\* program before the try block is reached
PrepareServerArgs ==
    /\ l_pc = "start"
    /\ \/ /\ l_trace' = Append(l_trace, Event("prepare_server_args", l_argv, 0, TRUE, None))
          /\ l_args' = <<"server_args", l_argv>>
          /\ l_pc' = "try"
          /\ UNCHANGED l_exc
       \/ \E e \in PrepareErrors :
          /\ l_trace' = Append(l_trace, Event("prepare_server_args", l_argv, 0, TRUE, e))
          /\ l_exc' = e
          /\ l_pc' = "exit"
          /\ UNCHANGED l_args
    /\ UNCHANGED <<l_argv, l_pid>>
    /\ UNCHANGED adapter_vars

\* try: launch_server(server_args) -- the call is made
LaunchServerCall ==
    /\ l_pc = "try"
    /\ l_trace' = Append(l_trace, Event("launch_server", l_args[2], 0, TRUE, None))
    /\ l_pc' = "launching"
    /\ UNCHANGED <<l_argv, l_pid, l_args, l_exc>>
    /\ UNCHANGED adapter_vars

\* The kill placed after the try statement in place of a finally clause: an
\* error of launch_server leaves the program at once
LaunchServerEndSkipsFinally ==
    /\ l_pc = "launching"
    /\ \/ /\ l_trace' = Append(l_trace, Event("launch_server.end", l_args[2], 0, TRUE, None))
          /\ l_pc' = "finally"
          /\ UNCHANGED l_exc
       \/ \E e \in LaunchErrors :
          /\ l_trace' = Append(l_trace, Event("launch_server.end", l_args[2], 0, TRUE, e))
          /\ l_exc' = e
          /\ l_pc' = "exit"
    /\ UNCHANGED <<l_argv, l_pid, l_args>>
    /\ UNCHANGED adapter_vars

\* launch_server returns or raises; either way control reaches `finally`
LaunchServerEnd ==
    /\ l_pc = "launching"
    /\ \/ /\ l_trace' = Append(l_trace, Event("launch_server.end", l_args[2], 0, TRUE, None))
          /\ UNCHANGED l_exc
       \/ \E e \in LaunchErrors :
          /\ l_trace' = Append(l_trace, Event("launch_server.end", l_args[2], 0, TRUE, e))
          /\ l_exc' = e
    /\ l_pc' = "finally"
    /\ UNCHANGED <<l_argv, l_pid, l_args>>
    /\ UNCHANGED adapter_vars

\* finally: kill_process_tree(os.getpid(), include_parent=False); a pending
\* exception is re-raised afterwards
KillProcessTree ==
    /\ l_pc = "finally"
    /\ l_trace' = Append(l_trace, Event("kill_process_tree", "", l_pid, FALSE, None))
    /\ l_pc' = "exit"
    /\ UNCHANGED <<l_argv, l_pid, l_args, l_exc>>
    /\ UNCHANGED adapter_vars

----------------------------------------------------------------------------
(* Specifications *)

\* The adapter module has been imported; the backend, where it loaded, is
\* switched on or off.
ModuleInit ==
    /\ \E outcome \in {None} \cup LoadErrors :
          /\ import_error = ModuleLoad(outcome).import_error
          /\ memory_saver = ModuleLoad(outcome).memory_saver
    /\ backend_enabled \in (IF BackendLoaded THEN BOOLEAN ELSE {FALSE})

AdapterInit ==
    /\ ModuleInit
    /\ paused = {}
    /\ active = [k \in ScopeKeys |-> 0]
    /\ calls = <<>>
    /\ adapters = <<>>
    /\ warnings = <<>>
    /\ pc = [t \in Threads |-> "idle"]
    /\ cur = [t \in Threads |-> NoCur]
    /\ last = [t \in Threads |-> NoCall]
    /\ issued = [t \in Threads |-> <<>>]
    /\ scopes = <<>>
    /\ stack = [t \in Threads |-> <<>>]
    /\ exc = [t \in Threads |-> None]
    /\ caught = [t \in Threads |-> {}]
    /\ steps = 0

LauncherStart ==
    /\ l_pc = "start"
    /\ l_args = <<"unset", "">>
    /\ l_trace = <<>>
    /\ l_exc = None

\* A process from the load of the adapter module on: it builds adapters,
\* reads enabled and runs check_validity while the backend toggles itself.
Init ==
    /\ AdapterInit
    /\ LauncherStart /\ l_argv = "" /\ l_pid = 101

Next ==
    \/ \E t \in Threads, enable \in BOOLEAN : Create(t, enable)
    \/ \E t \in Threads, a \in 1..MaxAdapters : ReadEnabled(t, a)
    \/ \E t \in Threads, a \in 1..MaxAdapters, name \in CallerNames :
          CheckValidity(t, a, name)
    \/ BackendToggle

Spec == Init /\ [][Next]_vars

\* A process after construction: create(True) and create(False) have been
\* called where the backend loaded, create(False) alone where it did not;
\* its main thread then uses the adapters.
Built(enables) ==
    [i \in DOMAIN enables |->
        [variant |-> CreateVariant(enables[i]), enable |-> enables[i]]]

UseInit ==
    /\ ModuleInit
    /\ paused = {}
    /\ active = [k \in ScopeKeys |-> 0]
    /\ calls = <<>>
    /\ adapters = IF CreateFails(TRUE) THEN Built(<<FALSE>>) ELSE Built(<<TRUE, FALSE>>)
    /\ warnings = <<>>
    /\ pc = [t \in Threads |-> "idle"]
    /\ cur = [t \in Threads |-> NoCur]
    /\ last = [t \in Threads |-> NoCall]
    /\ issued = [t \in Threads |-> <<>>]
    /\ scopes = <<>>
    /\ stack = [t \in Threads |-> <<>>]
    /\ exc = [t \in Threads |-> None]
    /\ caught = [t \in Threads |-> {}]
    /\ steps = 0
    /\ LauncherStart /\ l_argv = "" /\ l_pid = 101

UseNext ==
    \/ \E t \in MainThread, a \in 1..MaxAdapters : ReadEnabled(t, a)
    \/ \E t \in MainThread, a \in 1..MaxAdapters, name \in CallerNames :
          CheckValidity(t, a, name)
    \/ \E t \in MainThread, a \in 1..MaxAdapters, op \in AdapterOps, tag \in ScopeKeys :
          Invoke(t, a, op, tag)
    \/ \E t \in MainThread : Dispatch(t)
    \/ \E t \in MainThread, s \in 1..MaxScopes : ScopeEnter(t, s)
    \/ \E t \in MainThread, e \in BodyErrors : BodyRaise(t, e)
    \/ \E t \in MainThread : ScopeExit(t)
    \/ BackendToggle

UseSpec == UseInit /\ [][UseNext]_vars

\* The same process with all its threads calling into the adapters at once:
\* a thread that has entered a method may be overtaken by another before
\* its call reaches the backend.
ConcurrentNext ==
    \/ \E t \in Threads, a \in 1..MaxAdapters, op \in AdapterOps, tag \in ScopeKeys :
          Invoke(t, a, op, tag)
    \/ \E t \in Threads : Dispatch(t)

ConcurrentSpec == UseInit /\ [][ConcurrentNext]_vars

\* The launcher process
LauncherInit ==
    /\ AdapterInit /\ import_error = None /\ backend_enabled
    /\ LauncherStart /\ l_argv \in Argvs /\ l_pid \in Pids

LauncherNext ==
    \/ PrepareServerArgs
    \/ LaunchServerCall
    \/ LaunchServerEnd
    \/ KillProcessTree

LauncherSpec == LauncherInit /\ [][LauncherNext]_vars

TypeOK ==
    /\ import_error \in {None} \cup LoadErrors
    /\ memory_saver \in {"singleton", "unbound"}
    /\ backend_enabled \in BOOLEAN
    /\ paused \subseteq Tags
    /\ \A k \in ScopeKeys : active[k] \in 0..MaxScopes
    /\ Len(adapters) <= MaxAdapters
    /\ Len(warnings) <= MaxWarnings
    /\ Len(scopes) <= MaxScopes
    /\ steps \in 0..MaxSteps
    /\ \A t \in Threads : pc[t] \in {"idle", "in_call"}

----------------------------------------------------------------------------
(* Properties of the factory and of the diagnostics (Spec) *)

\* Thread t completes a call of op in this step.
Completes(t, op) == last'[t].n = last[t].n + 1 /\ last'[t].op = op

BackendUnchanged == UNCHANGED <<backend_enabled, paused, active, calls>>

\* C1: with the backend's import failed, every create(True) logs the
\* missing-capability warning and raises the very error object captured at
\* import; it builds no adapter and touches nothing else, on the first call
\* and on every later one.
C1_CreateRaisesCapturedError ==
    [][\A t \in Threads :
        (Completes(t, "create") /\ last'[t].arg = "true" /\ import_error # None)
        => /\ last'[t].outcome = "raise"
           /\ last'[t].val = import_error
           /\ warnings' = Append(warnings, MissingWarning)
           /\ \A u \in Threads \ {t} : last'[u] = last[u]
           /\ UNCHANGED <<import_error, memory_saver, adapters, scopes, pc, cur,
                          issued, stack, exc, caught, steps>>
           /\ BackendUnchanged]_vars

C1_Witness ==
    /\ import_error # None
    /\ warnings = <<MissingWarning, MissingWarning>>
    /\ adapters = <<>>
    /\ \E t \in Threads :
          /\ last[t].op = "create" /\ last[t].arg = "true" /\ last[t].n = 2
          /\ last[t].outcome = "raise" /\ last[t].val = import_error

\* C2: reading enabled on a Real adapter gives the backend's enabled flag
\* as it is at the moment of the read, also once the backend has switched
\* itself off after the adapter was built.
C2_EnabledReflectsBackend ==
    [][\A t \in Threads :
        (Completes(t, "enabled") /\ adapters[last'[t].adapter].variant = "Real")
        => /\ last'[t].outcome = "return"
           /\ last'[t].val = Bool(backend_enabled)
           /\ EnabledOf(last'[t].adapter) = backend_enabled]_vars

C2_Witness ==
    /\ ~backend_enabled
    /\ \E a \in DOMAIN adapters :
          /\ adapters[a].variant = "Real" /\ adapters[a].enable
          /\ last[1].op = "enabled" /\ last[1].adapter = a /\ last[1].val = Bool(TRUE)
          /\ last[2].op = "enabled" /\ last[2].adapter = a /\ last[2].val = Bool(FALSE)

\* C4: create(False) returns a Noop adapter whether or not the backend
\* loaded: it does not raise, logs nothing and never builds a Real adapter.
C4_CreateFalseIsNoop ==
    [][\A t \in Threads :
        (Completes(t, "create") /\ last'[t].arg = "false")
        => /\ last'[t].outcome = "return"
           /\ last'[t].val = Obj("adapter", Len(adapters) + 1)
           /\ Len(adapters') = Len(adapters) + 1
           /\ adapters'[Len(adapters')].variant = "Noop"
           /\ SubSeq(adapters', 1, Len(adapters)) = adapters
           /\ warnings' = warnings]_vars

C4_Witness ==
    /\ import_error # None
    /\ warnings = <<>>
    /\ \E t \in Threads :
          /\ last[t].op = "create" /\ last[t].arg = "false"
          /\ last[t].outcome = "return"
          /\ adapters[last[t].val.id].variant = "Noop"

\* C7 as stated: all the adapters that exist in the process are of one
\* variant, whatever enable values create() was called with.
C7_Original ==
    \A i, j \in DOMAIN adapters : adapters[i].variant = adapters[j].variant

\* C7 amended: the variant of an adapter is fixed by the enable argument of
\* the create() call that built it (Real for True, Noop for False) and never
\* changes afterwards, so adapters built with equal enable values are of one
\* variant.
C7_VariantFixedByEnable ==
    [][/\ \A i \in DOMAIN adapters :
             i \in DOMAIN adapters' /\ adapters'[i] = adapters[i]
       /\ \A i \in DOMAIN adapters' :
             adapters'[i].variant = (IF adapters'[i].enable THEN "Real" ELSE "Noop")]_vars

C7_Witness ==
    /\ Len(adapters) = 2
    /\ adapters[1].enable /\ adapters[1].variant = "Real"
    /\ ~adapters[2].enable /\ adapters[2].variant = "Noop"
    /\ \E t \in Threads : last[t].op \in {"enabled", "check_validity"}

----------------------------------------------------------------------------
(* Properties of the adapters in use (UseSpec) *)

IsVariant(a, variant) == a \in DOMAIN adapters /\ adapters[a].variant = variant

\* Thread t returns from the adapter method it was in.
Returns(t) == pc[t] = "in_call" /\ pc'[t] = "idle"

\* C3: on a Noop adapter, configure_subprocess and region (call, enter and
\* exit of the scope), pause and resume, for any tag and in any order, leave
\* the backend's state (enabled flag, paused set, open scopes, call log)
\* as it was and do not raise, and enabled reads False throughout.
C3_NoopHasNoEffect ==
    [][/\ \A t \in Threads :
             (Returns(t) /\ IsVariant(cur[t].adapter, "Noop"))
             => /\ BackendUnchanged
                /\ last'[t].op = cur[t].op /\ last'[t].outcome = "return"
       /\ \A s \in DOMAIN scopes :
             (scopes[s].variant = "Noop" /\ scopes'[s].state # scopes[s].state)
             => /\ BackendUnchanged
                /\ exc'[scopes[s].owner] \in {None, exc[scopes[s].owner]}
       /\ \A t \in Threads :
             (Completes(t, "enabled") /\ IsVariant(last'[t].adapter, "Noop"))
             => last'[t].outcome = "return" /\ last'[t].val = Bool(FALSE)
       /\ \A a \in DOMAIN adapters :
             IsVariant(a, "Noop") => ~EnabledOf(a) /\ ~EnabledOf(a)']_vars

C3_Witness ==
    /\ BackendLoaded /\ backend_enabled
    /\ calls = <<>> /\ paused = {} /\ \A k \in ScopeKeys : active[k] = 0
    /\ \E s \in DOMAIN scopes :
          /\ scopes[s].variant = "Noop" /\ scopes[s].kind = "region"
          /\ scopes[s].state = "exited"
          /\ last[scopes[s].owner].op \in {"pause", "resume"}
          /\ last[scopes[s].owner].arg = scopes[s].tag
          /\ IsVariant(last[scopes[s].owner].adapter, "Noop")
          /\ last[scopes[s].owner].outcome = "return"

\* The scopes thread t is inside of, innermost last
Entered(t) == {s \in DOMAIN scopes : scopes[s].owner = t /\ scopes[s].state = "entered"}
OnStack(t) == {stack[t][i] : i \in DOMAIN stack[t]}

\* C5: a scope of region(tag) or configure_subprocess(), of either variant,
\* is left exactly once after it was entered, when the body finishes and
\* when the body raises; an error raised by the body is still in flight
\* after the exit and reaches the caller of the outermost `with`.
C5_ScopeExitsOnce ==
    /\ \A s \in DOMAIN scopes :
          /\ scopes[s].exits = (IF scopes[s].state = "exited" THEN 1 ELSE 0)
          /\ scopes[s].unwound # None =>
                /\ scopes[s].state = "exited"
                /\ \/ exc[scopes[s].owner] = scopes[s].unwound
                   \/ scopes[s].unwound \in caught[scopes[s].owner]
    /\ \A t \in Threads :
          /\ Entered(t) = OnStack(t)
          /\ Cardinality(OnStack(t)) = Len(stack[t])
          /\ exc[t] # None => stack[t] # <<>>
    /\ \A k \in ScopeKeys :
          active[k] = Cardinality({s \in DOMAIN scopes :
                          /\ scopes[s].variant = "Real" /\ scopes[s].state = "entered"
                          /\ scopes[s].kind = (IF k = NoTag THEN "configure_subprocess" ELSE "region")
                          /\ scopes[s].tag = k})

C5_Witness ==
    \E s1, s2 \in DOMAIN scopes, e \in BodyErrors :
       /\ scopes[s1].variant = "Real" /\ scopes[s2].variant = "Noop"
       /\ scopes[s1].owner = scopes[s2].owner
       /\ scopes[s1].state = "exited" /\ scopes[s2].state = "exited"
       /\ scopes[s1].unwound = e /\ scopes[s2].unwound = e
       /\ e \in caught[scopes[s1].owner]
       /\ stack[scopes[s1].owner] = <<>>

\* C6: check_validity(caller_name) logs exactly one warning naming
\* caller_name when enabled is False at the call and none when it is True;
\* it returns normally and changes nothing else, so the calls that follow
\* find the adapter and the backend as they were.
C6_CheckValidityIsAdvisory ==
    [][\A t \in Threads :
        Completes(t, "check_validity")
        => /\ last'[t].outcome = "return" /\ last'[t].val = None
           /\ warnings' = (IF EnabledOf(last'[t].adapter) THEN warnings
                           ELSE Append(warnings, IneffectiveWarning(last'[t].arg)))
           /\ \A u \in Threads \ {t} : last'[u] = last[u]
           /\ UNCHANGED <<import_error, memory_saver, adapters, scopes, pc, cur,
                          issued, stack, exc, caught>>
           /\ BackendUnchanged]_vars

C6_Witness ==
    \E t \in Threads, name \in CallerNames :
       /\ warnings = <<IneffectiveWarning(name)>>
       /\ last[t].n = 2 /\ last[t].op = "pause" /\ last[t].outcome = "return"
       /\ IsVariant(last[t].adapter, "Real") /\ ~backend_enabled
       /\ last[t].arg \in paused
       /\ \A u \in Threads \ {t} : last[u].n = 0


\* The backend calls that came from thread t, in the order of their arrival
CallsOf(t) ==
    LET FromT(c) == c.thread = t IN SelectSeq(calls, FromT)
OpsOf(cs) == [i \in DOMAIN cs |-> [op |-> cs[i].op, tag |-> cs[i].tag]]

\* C8: the Real adapter passes everything through: the backend receives, for
\* each thread, exactly the calls that thread issued on Real adapters, same
\* operation and same tag, in the order of issue, none missing, added or held
\* back once the method has returned; and the caller gets the backend's own
\* return value or error.  Checked with the threads interleaved.
C8_RealIsPassThrough ==
    \A t \in Threads :
       /\ issued[t] =
             (IF pc[t] = "in_call" /\ IsVariant(cur[t].adapter, "Real")
              THEN Append(OpsOf(CallsOf(t)), [op |-> cur[t].op, tag |-> cur[t].tag])
              ELSE OpsOf(CallsOf(t)))
       /\ (last[t].op \in AdapterOps /\ IsVariant(last[t].adapter, "Real"))
          => /\ CallsOf(t) # <<>>
             /\ LET b == CallsOf(t)[Len(CallsOf(t))]
                IN /\ b.op = last[t].op /\ b.tag = last[t].arg
                   /\ b.outcome = last[t].outcome /\ b.val = last[t].val

C8_Witness ==
    /\ Len(calls) = 2
    /\ calls[1].thread # calls[2].thread
    /\ calls[1].op = "pause" /\ calls[1].outcome = "raise"
    /\ calls[2].op = "region" /\ calls[2].tag # calls[1].tag
    /\ \A t \in Threads : pc[t] = "idle"
    /\ last[calls[1].thread].val \in BackendErrors
    /\ last[calls[2].thread].val = Obj("scope", 1)

----------------------------------------------------------------------------
(* Properties of the launcher (LauncherSpec) *)

Where(call) == {i \in DOMAIN l_trace : l_trace[i].call = call}

\* C10: once launch_server(server_args) has been started,
\* kill_process_tree(os.getpid(), include_parent=False) is called exactly
\* once when launch_server ends, by return or by error, and after it has
\* ended; an error of launch_server leaves the program after the kill.  When
\* prepare_server_args fails neither of the two is called.
C10_KillAfterLaunch ==
    /\ Cardinality(Where("kill_process_tree")) <= 1
    /\ Cardinality(Where("launch_server")) <= 1
    /\ \A k \in Where("kill_process_tree") :
          /\ l_trace[k].pid = l_pid /\ ~l_trace[k].include_parent
          /\ \E e \in Where("launch_server.end") : e < k
    /\ \A e \in Where("launch_server.end") :
          /\ \E c \in Where("launch_server") : c < e
          /\ l_pc = "exit" => /\ Cardinality(Where("kill_process_tree")) = 1
                              /\ l_exc = l_trace[e].err
    /\ \A c \in Where("launch_server") :
          /\ l_trace[c].argv = l_argv
          /\ \E p \in Where("prepare_server_args") : p < c /\ l_trace[p].err = None
    /\ \A p \in Where("prepare_server_args") :
          l_trace[p].err # None
          => /\ Where("launch_server") = {} /\ Where("kill_process_tree") = {}
             /\ l_pc = "exit" /\ l_exc = l_trace[p].err

C10_Witness ==
    /\ l_pc = "exit"
    /\ l_exc \in LaunchErrors
    /\ Len(l_trace) = 4
    /\ l_trace[3].call = "launch_server.end" /\ l_trace[3].err = l_exc
    /\ l_trace[4].call = "kill_process_tree"

====
